---- MODULE Spec2Model ----
(***************************************************************************)
(* Model of server.js: the Express handlers for video-info, analyze-video  *)
(* and create-clip, the highlight extractor, and the periodic sweep of the *)
(* downloads and temp directories.                                         *)
(*                                                                         *)
(* Each handler is cut at its suspension points (exec callbacks and        *)
(* awaited API calls); everything between two suspension points runs in    *)
(* one event-loop turn and is one atomic action.                           *)
(***************************************************************************)
EXTENDS Integers, Sequences, FiniteSets, TLC

VARIABLES
    now,        \* Date.now(), in milliseconds since the server started
    nextSweep,  \* expiry time of the setInterval timer
    serverUp,   \* the Node process is alive (no uncaught exception yet)
    apiKey,     \* process.env.GROQ_API_KEY is set
    files,      \* the two working directories: path -> [mtime, by]
    req,        \* the requests: r -> state of the handler serving it
    sent        \* the response written last, with the request it answers

vars == <<now, nextSweep, serverUp, apiKey, files, req, sent>>

----------------------------------------------------------------------------
(* Bounds of the model *)

NReq == 2            \* request slots
MaxIntervals == 3    \* the clock stops after this many timer periods
MaxMs == 1           \* the clock moves by single milliseconds up to here
MaxScore == 2        \* scores the model's reply draws from: 1..MaxScore
MaxItems == 3        \* arrays of any items: up to this length
MaxLong == 6         \* arrays of well-formed items: up to this length

(* Program constants *)

INTERVAL == 1800000
HOUR == 3600000
INFO_TIMEOUT == 60000
EXEC_TIMEOUT == 300000
NAME_MAX == 50
MAX_CLIPS == 5

Reqs == 1..NReq
MaxNow == MaxIntervals * INTERVAL

----------------------------------------------------------------------------
(* JavaScript values of the request body *)

JsUndef == [t |-> "undef", n |-> 0, s |-> <<>>]
JsNum(k) == [t |-> "num", n |-> k, s |-> <<>>]
JsStr(x) == [t |-> "str", n |-> 0, s |-> x]

\* !v  is FALSE exactly for these
Truthy(v) ==
    CASE v.t = "undef" -> FALSE
      [] v.t = "num" -> v.n # 0
      [] v.t = "str" -> v.s # <<>>

Urls == {JsUndef, JsStr(<<>>), JsStr(<<"u">>)}
StartTimes == {JsUndef, JsNum(0), JsNum(5)}
Durations == {JsUndef, JsNum(0), JsNum(10)}
ClipNames == {JsUndef, JsStr(<<"a", " ">>), JsStr(<<"a", "_">>)}

NoBody == [url |-> JsUndef, startTime |-> JsUndef, duration |-> JsUndef,
           clipName |-> JsUndef]

----------------------------------------------------------------------------
(* File names *)

SafeChars ==
    {"a","b","c","d","e","f","g","h","i","j","k","l","m","n","o","p","q","r",
     "s","t","u","v","w","x","y","z",
     "A","B","C","D","E","F","G","H","I","J","K","L","M","N","O","P","Q","R",
     "S","T","U","V","W","X","Y","Z",
     "0","1","2","3","4","5","6","7","8","9","-","_"}

Min(a, b) == IF a < b THEN a ELSE b

\* (clipName || 'clip').replace(/[^a-zA-Z0-9-_]/g, '_').substring(0, 50)
SafeName(clipName) ==
    LET raw == IF Truthy(clipName) THEN clipName.s ELSE <<"c", "l", "i", "p">>
        rep == [i \in 1..Len(raw) |->
                   IF raw[i] \in SafeChars THEN raw[i] ELSE "_"]
    IN SubSeq(rep, 1, Min(Len(rep), NAME_MAX))

NoPath == [dir |-> "none", name |-> <<>>, ts |-> 0, ext |-> ""]

\* path.join(TEMP_DIR, `audio-${Date.now()}.mp3`)
AudioPath(t) ==
    [dir |-> "temp", name |-> <<"a", "u", "d", "i", "o">>, ts |-> t,
     ext |-> "mp3"]

\* path.join(DOWNLOADS_DIR, `${safeName}-${Date.now()}.mp4`)
ClipPath(clipName, t) ==
    [dir |-> "downloads", name |-> SafeName(clipName), ts |-> t,
     ext |-> "mp4"]

Exists(fs, p) == p \in DOMAIN fs

\* an external tool writes (creates or overwrites) the file at p
WriteFile(fs, p, t, r) ==
    [q \in DOMAIN fs \cup {p} |->
        IF q = p THEN [mtime |-> t, by |-> r] ELSE fs[q]]

Unlink(fs, p) == [q \in DOMAIN fs \ {p} |-> fs[q]]

----------------------------------------------------------------------------
(* Responses *)

NoResp == [status |-> 0, error |-> "", data |-> <<>>]
ErrorResp(code, msg) == [status |-> code, error |-> msg, data |-> <<>>]
OkResp(d) == [status |-> 200, error |-> "", data |-> d]

NoTrans == [text |-> "", segments |-> <<>>]
NoReply == [ok |-> FALSE, content |-> <<>>]
NoCb == [ran |-> FALSE, err |-> FALSE, stdout |-> "none"]

IdleReq ==
    [pc |-> "idle", kind |-> "none", body |-> NoBody, path |-> NoPath,
     t0 |-> 0, opened |-> FALSE, trans |-> NoTrans, asked |-> FALSE,
     reply |-> NoReply, cb |-> NoCb, execs |-> 0, apis |-> 0,
     resp |-> NoResp]

\* a request whose response has been written: the handler's locals are gone
DoneReq == [IdleReq EXCEPT !.pc = "done"]

NoSent == [r |-> 0, q |-> IdleReq]

\* res.json(...) / res.status(...).json(...)
Respond(q, r) == [q EXCEPT !.pc = "done", !.resp = r]

----------------------------------------------------------------------------
(* The highlight extractor, findHighlights.  The text of the model's reply *)
(* is a sequence of tokens: brackets, prose, and the elements of a JSON    *)
(* array (objects with or without a numeric score, or null).               *)

Tok(t, num, score) == [t |-> t, num |-> num, score |-> score]
LB == Tok("[", FALSE, 0)
RB == Tok("]", FALSE, 0)
PROSE == Tok("prose", FALSE, 0)
NULLTOK == Tok("null", FALSE, 0)
Item(s) == Tok("item", TRUE, s)
NoScoreItem == Tok("item", FALSE, 0)

NoMatch == <<PROSE>>

\* response.match(/\[[\s\S]*\]/): greedy, from the first "[" to the last "]"
Match(text) ==
    LET lbs == {i \in 1..Len(text) : text[i] = LB}
        rbs == {j \in 1..Len(text) : text[j] = RB}
    IN IF lbs = {} THEN NoMatch
       ELSE LET i == CHOOSE x \in lbs : \A y \in lbs : x <= y
                after == {j \in rbs : j > i}
            IN IF after = {} THEN NoMatch
               ELSE SubSeq(text, i, CHOOSE x \in after : \A y \in after : y <= x)

\* JSON.parse of a matched substring (flat arrays): the elements between the
\* outer brackets must all be JSON values
JsonParse(m) ==
    LET mid == SubSeq(m, 2, Len(m) - 1)
    IN IF \A i \in 1..Len(mid) : mid[i].t \in {"item", "null"}
       THEN [ok |-> TRUE, value |-> mid]
       ELSE [ok |-> FALSE, value |-> <<>>]

\* mutant: the comparator with its operands exchanged
CompareAscending(a, b) ==
    IF a.num /\ b.num THEN a.score - b.score ELSE 0

\* (a, b) => b.score - a.score, with NaN read as +0 by the sort
Compare(a, b) ==
    IF a.num /\ b.num THEN b.score - a.score ELSE 0

RECURSIVE InsertSorted(_, _)
InsertSorted(sorted, x) ==
    IF sorted = <<>> THEN <<x>>
    ELSE IF Compare(sorted[Len(sorted)], x) <= 0
         THEN Append(sorted, x)
         ELSE Append(InsertSorted(SubSeq(sorted, 1, Len(sorted) - 1), x),
                     sorted[Len(sorted)])

RECURSIVE StableSort(_)
StableSort(a) ==
    IF a = <<>> THEN <<>>
    ELSE InsertSorted(StableSort(SubSeq(a, 1, Len(a) - 1)), a[Len(a)])

Orderings(a) ==
    {[i \in 1..Len(a) |-> a[f[i]]] :
        f \in {g \in [1..Len(a) -> 1..Len(a)] :
                  \A i, j \in 1..Len(a) : i # j => g[i] # g[j]}}

\* the comparator is a consistent ordering of the elements of a
Consistent(a) ==
    \/ \A i \in 1..Len(a) : a[i].num
    \/ \A i, j \in 1..Len(a) : Compare(a[i], a[j]) = 0

\* highlights.sort((a, b) => b.score - a.score): the possible results, or
\* thrown when the comparator reads .score of null
SortOutcomes(a) ==
    IF Len(a) < 2 THEN [thrown |-> FALSE, results |-> {a}]
    ELSE IF \E i \in 1..Len(a) : a[i].t = "null"
         THEN [thrown |-> TRUE, results |-> {}]
    ELSE IF Consistent(a)
         THEN [thrown |-> FALSE, results |-> {StableSort(a)}]
    ELSE [thrown |-> FALSE, results |-> Orderings(a)]

\* completion.choices[0]?.message?.content || '[]'
Content(reply) == IF reply.content = <<>> THEN <<LB, RB>> ELSE reply.content

\* findHighlights from the completion's arrival on: what it can return
HighlightOutcomes(reply) ==
    IF ~reply.ok THEN {<<>>}
    ELSE LET m == Match(Content(reply))
         IN IF m = NoMatch THEN {<<>>}
            ELSE LET parsed == JsonParse(m)
                 IN IF ~parsed.ok THEN {<<>>}
                    ELSE LET sorted == SortOutcomes(parsed.value)
                         IN IF sorted.thrown THEN {<<>>}
                            ELSE sorted.results

(* Replies of the chat-completion API *)

Items == {Item(s) : s \in 1..MaxScore} \cup {NoScoreItem, NULLTOK}
ItemSeqs == UNION {[1..k -> Items] : k \in 0..MaxItems}
LongArray(n) == [i \in 1..n |-> Item(((i - 1) % MaxScore) + 1)]
Wrap(a) == <<LB>> \o a \o <<RB>>

Texts ==
    {Wrap(a) : a \in ItemSeqs}
    \cup {<<PROSE>> \o Wrap(a) \o <<PROSE>> : a \in ItemSeqs}
    \cup {<<LB, PROSE, RB>> \o Wrap(a) : a \in ItemSeqs}
    \cup {Wrap(LongArray(n)) : n \in 1..MaxLong}
    \cup {<<>>, <<PROSE>>, <<LB, PROSE>>, <<RB, LB>>, <<LB, PROSE, RB>>}

AllReplies == {[ok |-> TRUE, content |-> t] : t \in Texts} \cup {NoReply}

Segment == [start |-> 0, end |-> 65, text |-> "s"]
Transcripts ==
    {[text |-> "hello", segments |-> <<>>],
     [text |-> "hello", segments |-> <<Segment>>]}

----------------------------------------------------------------------------
(* The server *)

Init ==
    /\ now = 0
    /\ nextSweep = INTERVAL
    /\ serverUp = TRUE
    /\ apiKey \in BOOLEAN
    /\ files = [p \in {} |-> [mtime |-> 0, by |-> 0]]
    /\ req = [r \in Reqs |-> IdleReq]
    /\ sent = NoSent

\* requests are numbered in their order of arrival
NextToArrive(r) ==
    /\ req[r].pc = "idle"
    /\ \A o \in Reqs : o < r => req[o].pc # "idle"

Arrived(q, kind, body) ==
    [q EXCEPT !.kind = kind, !.body = body, !.t0 = now]

\* the response written last has left the server
Flushed == sent = NoSent

\* request r leaves an event-loop turn in handler state q; if q has
\* responded, the response is written and the handler is over
Commit(r, q) ==
    /\ Flushed
    /\ IF q.pc = "done"
       THEN /\ req' = [req EXCEPT ![r] = DoneReq]
            /\ sent' = [r |-> r, q |-> q]
       ELSE /\ req' = [req EXCEPT ![r] = q]
            /\ UNCHANGED sent

\* the response goes out on its socket before the event loop's next turn
Deliver ==
    /\ ~Flushed
    /\ sent' = NoSent
    /\ UNCHANGED <<now, nextSweep, serverUp, apiKey, files, req>>

(* POST /api/video-info *)

InfoBodies == {[NoBody EXCEPT !.url = u] : u \in Urls}

\* the handler up to exec(command, { timeout: 60000 }, callback)
InfoEntry(q) ==
    IF ~Truthy(q.body.url)
    THEN Respond(q, ErrorResp(400, "URL fehlt"))
    ELSE [q EXCEPT !.pc = "info_exec", !.execs = @ + 1]

InfoArrive(r, body) ==
    /\ serverUp
    /\ NextToArrive(r)
    /\ Commit(r, InfoEntry(Arrived(req[r], "info", body)))
    /\ UNCHANGED <<now, nextSweep, serverUp, apiKey, files>>

Stdouts == {"garbage", "json"}

\* JSON.parse(stdout) and the fields the response reads from it
InfoOf(stdout) ==
    LET uploader == ""
        channel == "channel"
    IN [success |-> TRUE, title |-> "title", duration |-> 65,
        thumbnail |-> "thumb",
        author |-> IF uploader # "" THEN uploader ELSE channel,
        videoId |-> "id"]

\* the exec callback: it runs outside the handler's try block, so what
\* JSON.parse throws is an uncaught exception and ends the process
InfoExecDone(r, err, stdout) ==
    /\ serverUp
    /\ req[r].pc = "info_exec"
    /\ LET q == [req[r] EXCEPT
                   !.cb = [ran |-> TRUE, err |-> err, stdout |-> stdout]]
       IN IF err
          THEN /\ Commit(r, Respond(q, ErrorResp(500, "Video nicht gefunden")))
               /\ UNCHANGED serverUp
          ELSE IF stdout = "garbage"
          THEN /\ Commit(r, [q EXCEPT !.pc = "threw"])
               /\ serverUp' = FALSE
          ELSE /\ Commit(r, Respond(q, OkResp(InfoOf(stdout))))
               /\ UNCHANGED serverUp
    /\ UNCHANGED <<now, nextSweep, apiKey, files>>

(* POST /api/analyze-video *)

AnalyzeBodies == InfoBodies

\* mutant: a catch block that answers without removing the audio file
AnalyzeCatchKeepsFile(q, fs, msg) ==
    [files |-> fs, req |-> Respond(q, ErrorResp(500, msg))]

\* the catch block: unlink the audio file if it exists, answer 500
AnalyzeCatch(q, fs, msg) ==
    [files |-> IF Exists(fs, q.path) THEN Unlink(fs, q.path) ELSE fs,
     req |-> Respond(q, ErrorResp(500, msg))]

\* step 4 and the response; unlinkSync throws when the file is gone
AnalyzeCleanup(q, fs, highlights) ==
    IF Exists(fs, q.path)
    THEN [files |-> Unlink(fs, q.path),
          req |-> Respond(q, OkResp([success |-> TRUE,
                                     transcription |-> q.trans.text,
                                     segments |-> q.trans.segments,
                                     highlights |-> highlights]))]
    ELSE AnalyzeCatch(q, fs, "ENOENT")

\* mutant: the credential is not checked before the download starts
AnalyzeEntryKeyUnchecked(q, key, t) ==
    IF ~Truthy(q.body.url)
    THEN Respond(q, ErrorResp(400, "URL fehlt"))
    ELSE [q EXCEPT !.pc = "an_exec", !.path = AudioPath(t), !.execs = @ + 1]

\* the handler's checks, and the request as it leaves them: answered, or
\* waiting for exec(cmd, { timeout: 300000 }, callback)
AnalyzeEntry(q, key, t) ==
    IF ~Truthy(q.body.url)
    THEN Respond(q, ErrorResp(400, "URL fehlt"))
    ELSE IF ~key
    THEN Respond(q, ErrorResp(500, "GROQ_API_KEY nicht konfiguriert"))
    ELSE [q EXCEPT !.pc = "an_exec", !.path = AudioPath(t), !.execs = @ + 1]

AnalyzeArrive(r, body) ==
    /\ serverUp
    /\ NextToArrive(r)
    /\ Commit(r, AnalyzeEntry(Arrived(req[r], "analyze", body), apiKey, now))
    /\ UNCHANGED <<now, nextSweep, serverUp, apiKey, files>>

\* the exec callback; on success the handler goes on to open the audio file
\* and start the transcription call.  The download utility may or may not
\* have left a file at the path, whatever its exit status.
AnalyzeExecDone(r, err, wrote) ==
    /\ serverUp
    /\ req[r].pc = "an_exec"
    /\ LET q == req[r]
           fs == IF wrote THEN WriteFile(files, q.path, now, r) ELSE files
           caught == AnalyzeCatch(q, fs, "exec failed")
       IN IF err
          THEN /\ files' = caught.files
               /\ Commit(r, caught.req)
          ELSE /\ files' = fs
               /\ Commit(r, [q EXCEPT !.pc = "an_transcribe",
                                      !.opened = Exists(fs, q.path),
                                      !.apis = @ + 1])
    /\ UNCHANGED <<now, nextSweep, serverUp, apiKey>>

\* the transcription call returns; findHighlights runs up to its own API
\* call, or returns [] at once when there are no segments
AnalyzeTranscribed(r, ok, trans) ==
    /\ serverUp
    /\ req[r].pc = "an_transcribe"
    /\ LET q == req[r]
           caught == AnalyzeCatch(q, files, "transcription failed")
           qt == [q EXCEPT !.trans = trans]
           clean == AnalyzeCleanup(qt, files, <<>>)
       IN IF ~q.opened \/ ~ok
          THEN /\ files' = caught.files
               /\ Commit(r, caught.req)
          ELSE IF Len(trans.segments) = 0
          THEN /\ files' = clean.files
               /\ Commit(r, clean.req)
          ELSE /\ Commit(r, [qt EXCEPT !.pc = "an_chat", !.asked = TRUE,
                                       !.apis = @ + 1])
               /\ UNCHANGED files
    /\ UNCHANGED <<now, nextSweep, serverUp, apiKey>>

\* the chat completion returns (or fails): findHighlights finishes, then the
\* handler unlinks the audio file and responds
AnalyzeChatDone(r, reply) ==
    /\ serverUp
    /\ req[r].pc = "an_chat"
    /\ \E highlights \in HighlightOutcomes(reply) :
         LET q == [req[r] EXCEPT !.reply = reply]
             clean == AnalyzeCleanup(q, files, highlights)
         IN /\ files' = clean.files
            /\ Commit(r, clean.req)
    /\ UNCHANGED <<now, nextSweep, serverUp, apiKey>>

(* POST /api/create-clip *)

ClipBodies ==
    [url : Urls, startTime : StartTimes, duration : Durations,
     clipName : ClipNames]

ClipBody(name, duration) ==
    [url |-> JsStr(<<"u">>), startTime |-> JsNum(0), duration |-> duration,
     clipName |-> name]

\* mutant: duration compared with undefined instead of tested for truth
ClipInvalidUndefinedOnly(body) ==
    \/ ~Truthy(body.url)
    \/ body.startTime = JsUndef
    \/ body.duration = JsUndef

\* !url || startTime === undefined || !duration
ClipInvalid(body) ==
    \/ ~Truthy(body.url)
    \/ body.startTime = JsUndef
    \/ ~Truthy(body.duration)

\* the handler up to exec(command, { timeout: 300000, ... }, callback)
ClipEntry(q, t) ==
    IF ClipInvalid(q.body)
    THEN Respond(q, ErrorResp(400, "Parameter fehlen"))
    ELSE [q EXCEPT !.pc = "clip_exec", !.path = ClipPath(q.body.clipName, t),
                   !.execs = @ + 1]

ClipArrive(r, body) ==
    /\ serverUp
    /\ NextToArrive(r)
    /\ Commit(r, ClipEntry(Arrived(req[r], "clip", body), now))
    /\ UNCHANGED <<now, nextSweep, serverUp, apiKey, files>>

\* the exec callback and the rest of the handler; ffmpeg -y overwrites
ClipExecDone(r, err, wrote) ==
    /\ serverUp
    /\ req[r].pc = "clip_exec"
    /\ LET q == req[r]
           fs == IF wrote THEN WriteFile(files, q.path, now, r) ELSE files
       IN /\ files' = fs
          /\ Commit(r, IF ~err /\ Exists(fs, q.path)
                       THEN Respond(q, OkResp([success |-> TRUE,
                                               filename |-> q.path]))
                       ELSE Respond(q, ErrorResp(500,
                                        "Clip-Erstellung fehlgeschlagen")))
    /\ UNCHANGED <<now, nextSweep, serverUp, apiKey>>

(* The cleanup timer: setInterval(..., 1800000) *)

\* mutant: a file exactly one hour old counts as expired
ExpiredInclusive(f, t) == f.mtime <= t - HOUR

\* statSync(filePath).mtimeMs < oneHourAgo
Expired(f, t) == f.mtime < t - HOUR

\* both directories after one run of the timer's callback at time t
Swept(fs, t) == [p \in {q \in DOMAIN fs : ~Expired(fs[q], t)} |-> fs[p]]

Sweep ==
    /\ Flushed
    /\ serverUp
    /\ now = nextSweep
    /\ files' = Swept(files, now)
    /\ nextSweep' = nextSweep + INTERVAL
    /\ UNCHANGED <<now, serverUp, apiKey, req, sent>>

(* Time.  A due timer fires before the clock moves on, and an exec with a  *)
(* timeout option has called back (with an error, if need be) by its       *)
(* deadline.  The API calls carry no deadline.                             *)

ExecPending(q) == q.pc \in {"info_exec", "an_exec", "clip_exec"}

Deadline(q) ==
    q.t0 + (IF q.pc = "info_exec" THEN INFO_TIMEOUT ELSE EXEC_TIMEOUT)

CanAdvance(d) ==
    /\ d > 0
    /\ now + d <= MaxNow
    /\ serverUp =>
         /\ now + d <= nextSweep
         /\ \A r \in Reqs : ExecPending(req[r]) => now + d <= Deadline(req[r])

\* one millisecond passes
TickMs ==
    /\ Flushed
    /\ CanAdvance(1)
    /\ now < MaxMs
    /\ now' = now + 1
    /\ UNCHANGED <<nextSweep, serverUp, apiKey, files, req, sent>>

\* time passes up to the next multiple of the timer's period
TickPeriod ==
    /\ Flushed
    /\ CanAdvance(((now \div INTERVAL) + 1) * INTERVAL - now)
    /\ now' = ((now \div INTERVAL) + 1) * INTERVAL
    /\ UNCHANGED <<nextSweep, serverUp, apiKey, files, req, sent>>

(* The bodies and replies the concurrent requests draw from *)

FewUrlBodies == {NoBody, [NoBody EXCEPT !.url = JsStr(<<"u">>)]}

FewClipBodies ==
    {ClipBody(JsStr(<<"a", " ">>), JsNum(10)), ClipBody(JsUndef, JsNum(0))}

FewReplies ==
    {NoReply, [ok |-> TRUE, content |-> <<PROSE>> \o Wrap(<<Item(1)>>)]}

----------------------------------------------------------------------------
(* The server under concurrent requests *)

Next ==
    \/ \E r \in Reqs, b \in FewUrlBodies : InfoArrive(r, b)
    \/ \E r \in Reqs, err \in BOOLEAN, out \in Stdouts :
          InfoExecDone(r, err, out)
    \/ \E r \in Reqs, b \in FewUrlBodies : AnalyzeArrive(r, b)
    \/ \E r \in Reqs, err \in BOOLEAN, wrote \in BOOLEAN :
          AnalyzeExecDone(r, err, wrote)
    \/ \E r \in Reqs, ok \in BOOLEAN, t \in Transcripts :
          AnalyzeTranscribed(r, ok, t)
    \/ \E r \in Reqs, reply \in FewReplies : AnalyzeChatDone(r, reply)
    \/ \E r \in Reqs, b \in FewClipBodies : ClipArrive(r, b)
    \/ \E r \in Reqs, err \in BOOLEAN, wrote \in BOOLEAN :
          ClipExecDone(r, err, wrote)
    \/ Deliver
    \/ Sweep
    \/ TickMs
    \/ TickPeriod

Spec == Init /\ [][Next]_vars

\* the timer fires when due and time does not stop short of the bound
FairSpec ==
    /\ Spec
    /\ WF_vars(Deliver)
    /\ WF_vars(Sweep)
    /\ WF_vars(TickMs)
    /\ WF_vars(TickPeriod)

\* one request at a time, over every body the validation distinguishes
InputNext ==
    \/ \E r \in Reqs, b \in InfoBodies : InfoArrive(r, b)
    \/ \E r \in Reqs, err \in BOOLEAN, out \in Stdouts :
          InfoExecDone(r, err, out)
    \/ \E r \in Reqs, b \in AnalyzeBodies : AnalyzeArrive(r, b)
    \/ \E r \in Reqs, err \in BOOLEAN, wrote \in BOOLEAN :
          AnalyzeExecDone(r, err, wrote)
    \/ \E r \in Reqs, b \in ClipBodies : ClipArrive(r, b)
    \/ \E r \in Reqs, err \in BOOLEAN, wrote \in BOOLEAN :
          ClipExecDone(r, err, wrote)
    \/ Deliver

InputSpec == Init /\ [][InputNext]_vars

\* one analyze-video request, over every reply of the chat-completion API
ExtractNext ==
    \/ \E b \in AnalyzeBodies : AnalyzeArrive(1, b)
    \/ \E err \in BOOLEAN, wrote \in BOOLEAN : AnalyzeExecDone(1, err, wrote)
    \/ \E ok \in BOOLEAN, t \in Transcripts : AnalyzeTranscribed(1, ok, t)
    \/ \E reply \in AllReplies : AnalyzeChatDone(1, reply)
    \/ Deliver

ExtractSpec == Init /\ [][ExtractNext]_vars

----------------------------------------------------------------------------
(* Properties *)

Answered(kind) == sent.r # 0 /\ sent.q.kind = kind
Succeeded(kind) == Answered(kind) /\ sent.q.resp.status = 200
FilesBy(r) == {p \in DOMAIN files : files[p].by = r}
AnalyzePcs == {"an_exec", "an_transcribe", "an_chat"}

\* C1: when an analyze-video request that passed the url and credential
\* checks is answered (200 or 500), no file exists at its audio path, and
\* from then on no audio file written for that request is in the temp
\* directory.
C1_AudioFileGone ==
    /\ (Answered("analyze") /\ sent.q.execs > 0) => ~Exists(files, sent.q.path)
    /\ \A r \in Reqs :
          req[r].pc = "done" => \A p \in FilesBy(r) : p.dir # "temp"

\* an analyze-video request is answered with success after its audio file
\* was extracted and transcribed
C1_Witness ==
    /\ Succeeded("analyze")
    /\ sent.q.execs = 1
    /\ sent.q.opened
    /\ sent.q.path = AudioPath(sent.q.t0)

\* C2: two create-clip requests in flight together with the same clipName
\* write to distinct output files.
C2_DistinctClipFiles ==
    \A r1, r2 \in Reqs :
        (/\ r1 # r2
         /\ req[r1].pc = "clip_exec"
         /\ req[r2].pc = "clip_exec"
         /\ req[r1].body.clipName = req[r2].body.clipName)
        => req[r1].path # req[r2].path

InfoFailed(q) ==
    q.kind = "info" /\ q.cb.ran /\ (q.cb.err \/ q.cb.stdout = "garbage")

\* C3: a video-info request whose download utility exited non-zero, or
\* exited zero with unparsable output, is answered with a 500 carrying an
\* error string; none is left unanswered and nothing escapes the handler.
C3_InfoFailureAnswered ==
    /\ \A r \in Reqs : ~InfoFailed(req[r])
    /\ InfoFailed(sent.q) => sent.q.resp.status = 500 /\ sent.q.resp.error # ""
    /\ serverUp

TimerRunning == serverUp
Aged(f) == now - f.mtime > HOUR
AgedFiles == {p \in DOMAIN files : Aged(files[p])}

\* C4: a run of the sweep removes exactly the files whose last-modified
\* time is older than one hour and leaves every other file as it was; a
\* file older than one hour is never modified again; and while the timer
\* keeps firing, the files older than one hour are eventually gone.
C4_SweepRemovesAged ==
    /\ [][nextSweep' # nextSweep =>
            \A p \in DOMAIN files :
                IF Aged(files[p])
                THEN ~Exists(files', p)
                ELSE Exists(files', p) /\ files'[p] = files[p]]_vars
    /\ [][\A p \in AgedFiles :
            Exists(files', p) => files'[p] = files[p]]_vars
    /\ (TimerRunning /\ AgedFiles # {}) ~> (~TimerRunning \/ AgedFiles = {})

\* the sweep has just run: the audio file a request had opened for
\* transcription is gone while the request is still waiting, and a file
\* exactly one hour old is still there
C4_Witness ==
    /\ TimerRunning
    /\ nextSweep = now + INTERVAL
    /\ \E r \in Reqs :
          /\ req[r].pc = "an_transcribe"
          /\ req[r].opened
          /\ ~Exists(files, req[r].path)
    /\ \E p \in DOMAIN files : files[p].mtime = now - HOUR

MissingField(q) ==
    \/ q.kind \in {"info", "analyze"} /\ ~Truthy(q.body.url)
    \/ /\ q.kind = "clip"
       /\ \/ ~Truthy(q.body.url)
          \/ q.body.startTime = JsUndef
          \/ ~Truthy(q.body.duration)

\* C5: a request with a missing required field is answered 400 with an
\* error string, with no external process or API call started and no file
\* written for it; a create-clip request with url, startTime 0 and a
\* non-zero duration is not rejected.
C5_MissingFieldRejected ==
    /\ \A r \in Reqs : req[r].pc \notin {"idle", "done"} => ~MissingField(req[r])
    /\ (sent.r # 0 /\ MissingField(sent.q)) =>
          /\ sent.q.resp.status = 400
          /\ sent.q.resp.error # ""
          /\ sent.q.execs = 0
          /\ sent.q.apis = 0
          /\ FilesBy(sent.r) = {}
    /\ (Answered("clip") /\ ~MissingField(sent.q)) => sent.q.resp.status # 400

\* a create-clip request with duration 0 and startTime 0 has been answered
C5_Witness ==
    /\ Answered("clip")
    /\ Truthy(sent.q.body.url)
    /\ sent.q.body.startTime = JsNum(0)
    /\ sent.q.body.duration = JsNum(0)
    /\ sent.q.resp.status = 400

\* C6: without the API credential, an analyze-video request with a url is
\* answered 500 with the configuration error before any external process
\* or API call starts, and no audio file is written for it.
C6_NoCredentialFailsFirst ==
    ~apiKey =>
        /\ \A r \in Reqs : req[r].pc \notin AnalyzePcs
        /\ (Answered("analyze") /\ Truthy(sent.q.body.url)) =>
              /\ sent.q.resp.status = 500
              /\ sent.q.resp.error = "GROQ_API_KEY nicht konfiguriert"
              /\ sent.q.execs = 0
              /\ sent.q.apis = 0
              /\ FilesBy(sent.r) = {}

\* an analyze-video request with a url was answered while no credential
\* is configured
C6_Witness ==
    /\ ~apiKey
    /\ Answered("analyze")
    /\ Truthy(sent.q.body.url)

\* the chat call failed, or its reply had no bracketed array, or the
\* matched text did not parse
Degraded(reply) ==
    \/ ~reply.ok
    \/ Match(Content(reply)) = NoMatch
    \/ ~JsonParse(Match(Content(reply))).ok

\* C7: when the highlight extractor fails (call failure, no array in the
\* reply, unparsable match) the analyze-video request is still answered
\* with success, carrying the transcription, the segments and an empty
\* highlights list.
C7_ExtractorFailureAbsorbed ==
    (Answered("analyze") /\ sent.q.asked /\ Degraded(sent.q.reply)) =>
        /\ sent.q.resp.status = 200
        /\ sent.q.resp.data.highlights = <<>>
        /\ sent.q.resp.data.transcription = sent.q.trans.text
        /\ sent.q.resp.data.segments = sent.q.trans.segments

\* a[i].score >= a[i+1].score as JavaScript evaluates it
ScoreGeq(a, b) == a.num /\ b.num /\ a.score >= b.score
Descending(h) == \A i \in 1..(Len(h) - 1) : ScoreGeq(h[i], h[i + 1])
AllScored(h) == \A i \in 1..Len(h) : h[i].num

\* C8 as stated: the highlights of every successful analyze-video response
\* are in descending order of score, whatever array the reply parsed to.
C8_AlwaysDescending ==
    Succeeded("analyze") => Descending(sent.q.resp.data.highlights)

\* C8, amended: the highlights of a successful analyze-video response are in
\* descending order of score when every entry has a numeric score.
C8_DescendingWhenScored ==
    (Succeeded("analyze") /\ AllScored(sent.q.resp.data.highlights))
        => Descending(sent.q.resp.data.highlights)

\* a reply listing score 1 before score 2 was answered with the two
\* entries in the opposite order
C8_Witness ==
    /\ Succeeded("analyze")
    /\ sent.q.reply.content = Wrap(<<Item(1), Item(2)>>)
    /\ sent.q.resp.data.highlights = <<Item(2), Item(1)>>

\* C9: the highlights of a successful analyze-video response have at most
\* 5 entries.
C9_AtMostFive ==
    Succeeded("analyze") => Len(sent.q.resp.data.highlights) <= MAX_CLIPS

\* C10: the analyze-video requests in flight together have pairwise
\* distinct audio file names.
C10_UniqueAudioNames ==
    \A r1, r2 \in Reqs :
        (r1 # r2 /\ req[r1].pc \in AnalyzePcs /\ req[r2].pc \in AnalyzePcs)
        => req[r1].path # req[r2].path

====
